---- MODULE Spec2Model ----
(***************************************************************************)
(* State-machine model of openvino_inference_server.py: the module globals *)
(* (pipeline, model_path_g, device_g), os.environ, the __main__ start-up   *)
(* sequence, initialize_pipeline and the Flask request handlers (Spec);    *)
(* and of hardware_analyzer.py, run from a shell or by the /hardware       *)
(* handler: the probes, the report and its JSON text (SpecHW).             *)
(*                                                                         *)
(* Python values: None is the empty tuple and a present value x is <<x>>.  *)
(* A Python str that the code splits, strips or upper-cases is a sequence  *)
(* of one-character strings.                                               *)
(***************************************************************************)
EXTENDS Integers, Sequences, FiniteSets, TLC

VARIABLES launch, mainpc, startup, exit_status, args,
          pipeline, model_path_g, device_g, environ,
          cpu_count,
          th, last, made, calls, cached,
          hw

vars == <<launch, mainpc, startup, exit_status, args, pipeline, model_path_g,
          device_g, environ, cpu_count, th, last, made, calls, cached, hw>>

(* ---------------------------------------------------------------- bounds *)
NThreads == 2
MaxCalls == 2
MaxRequests == 2
CoreCount == 12

(* ------------------------------------------------------ Python values --- *)
None == <<>>
Some(x) == <<x>>
Val(o) == o[1]

MainThread == 0
Workers == 1..NThreads
Threads == 0..NThreads

(* ------------------------------------------------------ str operations -- *)
NPU == <<"N", "P", "U">>
GPU == <<"G", "P", "U">>
CPU == <<"C", "P", "U">>

UpperChar(c) ==
    CASE c = "n" -> "N"
      [] c = "p" -> "P"
      [] c = "u" -> "U"
      [] c = "g" -> "G"
      [] c = "c" -> "C"
      [] OTHER -> c

StrUpper(s) == [k \in 1..Len(s) |-> UpperChar(s[k])]

IsSpace(c) == c \in {" ", "\t", "\n", "\r"}

RECURSIVE LStrip(_)
LStrip(s) == IF s # <<>> /\ IsSpace(Head(s)) THEN LStrip(Tail(s)) ELSE s

RECURSIVE RStrip(_)
RStrip(s) ==
    IF s # <<>> /\ IsSpace(s[Len(s)]) THEN RStrip(SubSeq(s, 1, Len(s) - 1)) ELSE s

StrStrip(s) == RStrip(LStrip(s))

RECURSIVE StrSplit(_, _)
StrSplit(s, sep) ==
    IF \E k \in 1..Len(s) : s[k] = sep
    THEN LET k == CHOOSE j \in 1..Len(s) :
                      s[j] = sep /\ \A h \in 1..(j - 1) : s[h] # sep
         IN  <<SubSeq(s, 1, k - 1)>> \o StrSplit(SubSeq(s, k + 1, Len(s)), sep)
    ELSE <<s>>

RECURSIVE StrJoin(_, _)
StrJoin(list, sep) ==
    IF list = <<>> THEN <<>>
    ELSE IF Len(list) = 1 THEN list[1]
    ELSE list[1] \o <<sep>> \o StrJoin(Tail(list), sep)

Digit(d) ==
    CASE d = 0 -> "0" [] d = 1 -> "1" [] d = 2 -> "2" [] d = 3 -> "3"
      [] d = 4 -> "4" [] d = 5 -> "5" [] d = 6 -> "6" [] d = 7 -> "7"
      [] d = 8 -> "8" [] d = 9 -> "9"

RECURSIVE IntStr(_)
IntStr(n) == IF n < 10 THEN <<Digit(n)>> ELSE IntStr(n \div 10) \o <<Digit(n % 10)>>

InList(x, list) == \E k \in 1..Len(list) : list[k] = x

(* --------------------------------------------------- command-line input - *)
(* --device values: the default; a list in lower case with spaces, a blank  *)
(* token and a repeated name; and the empty string.                         *)
ArgDefault == <<"N", "P", "U", ",", "G", "P", "U", ",", "C", "P", "U">>
ArgMessy == <<"g", "p", "u", ",", " ", ",", " ", "G", "P", "U">>
ArgEmpty == <<>>
DeviceArgs == {ArgDefault, ArgMessy, ArgEmpty}

ModelDir == "/models/ir"
ModelPathArgs == {ModelDir, "/models/missing", ""}
IsDir(p) == p = ModelDir

(* --model-path and --device as given. A path that is no directory is paired *)
(* with the default --device only: line 41 returns before device_g is read.  *)
Args ==
    {a \in [model_path : ModelPathArgs, device : DeviceArgs] :
        IsDir(a.model_path) \/ a.device = ArgDefault}

(* ----------------------------------------------------- os.environ ------- *)
EnvInit ==
    [OPENVINO_HETERO_PRIORITY |-> None, OMP_NUM_THREADS |-> None,
     MKL_NUM_THREADS |-> None, ONEDNN_MAX_CPU_ISA |-> None,
     TBB_MALLOC_USE_HUGE_PAGES |-> None]

(* os.cpu_count(): None or the number of logical cores, the same at every  *)
(* call within the process; "unread" until line 26 first calls it.         *)
CpuCount(device_list) ==
    IF ~InList(CPU, device_list) THEN {cpu_count}
    ELSE IF cpu_count = "unread" THEN {"None", "cores"}
    ELSE {cpu_count}

CpuCores(n) == IF n = "None" THEN 1 ELSE CoreCount

set_performance_env_vars(env, device_list, n) ==
    LET e1 == [env EXCEPT !.OPENVINO_HETERO_PRIORITY = Some(StrJoin(device_list, ","))]
        e2 == IF InList(CPU, device_list)
              THEN [e1 EXCEPT !.OMP_NUM_THREADS = Some(IntStr(CpuCores(n))),
                              !.MKL_NUM_THREADS = Some(IntStr(CpuCores(n)))]
              ELSE e1
    IN  [e2 EXCEPT !.ONEDNN_MAX_CPU_ISA = Some("AVX512_CORE_VNNI"),
                   !.TBB_MALLOC_USE_HUGE_PAGES = Some("1")]

(* ----------------------------------------------------- thread records --- *)
NoBody == [kind |-> "none", prompt |-> None, max_new_tokens |-> None]
NoResp == [status |-> 0, error |-> "", text |-> "", device |-> None]

(* A thread's position and locals: the device list of line 47, the loop     *)
(* index, the devices announced on line 53 (tried) and those whose failure  *)
(* line 60 reports (failed), the pipeline object it constructed, the cached *)
(* pipeline when its call began, and the pipeline call it is inside.        *)
IdleTh ==
    [pc |-> "idle", body |-> NoBody, devices |-> <<>>, i |-> 0, tried |-> <<>>,
     failed |-> <<>>, inst |-> None, prior |-> None, run |-> None]

(* What the step just taken returned to its caller, if it returned. *)
NoLast ==
    [op |-> "none", body |-> NoBody, resp |-> NoResp,
     result |-> "none", why |-> "", devices |-> <<>>, tried |-> <<>>,
     failed |-> <<>>, inst |-> None, prior |-> None, fatal |-> None,
     run |-> None]

(* Request bodies of POST /generate, by what request.get_json() makes of them. *)
Bodies ==
    {[kind |-> "malformed", prompt |-> None, max_new_tokens |-> None],
     [kind |-> "falsy", prompt |-> None, max_new_tokens |-> None],
     [kind |-> "array", prompt |-> None, max_new_tokens |-> None],
     [kind |-> "object", prompt |-> None, max_new_tokens |-> None],
     [kind |-> "object", prompt |-> Some(""), max_new_tokens |-> None],
     [kind |-> "object", prompt |-> Some("hello"), max_new_tokens |-> None]}

DefaultMaxNewTokens == 100

Resp(status, error, text, device) ==
    [status |-> status, error |-> error, text |-> text, device |-> device]

proc == <<launch, mainpc, startup, exit_status, args>>
glob == <<pipeline, model_path_g, device_g, environ>>

(* The hardware analyzer and the /hardware handler are at rest. *)
HwIdle == [pc |-> "off"]

(* ----------------------------------------------------------------- Init - *)
Init ==
    /\ launch \in {"script", "imported"}
    /\ mainpc = "start"
    /\ startup = "none"
    /\ exit_status = None
    /\ args = None
    /\ pipeline = None
    /\ model_path_g = None
    /\ device_g = None
    /\ environ = EnvInit
    /\ cpu_count = "unread"
    /\ th = [t \in Threads |-> IdleTh]
    /\ last = NoLast
    /\ made = 0
    /\ calls = 0
    /\ cached = None
    /\ hw = HwIdle

Running == mainpc # "exited"
Serving == launch = "imported" \/ mainpc = "serving"

(* A request or a host call is taken by the first free worker thread. *)
Free(t) ==
    /\ t \in Workers
    /\ th[t].pc = "idle"
    /\ \A u \in Workers : u < t => th[u].pc # "idle"

BeginCall == [IdleTh EXCEPT !.pc = "ip_begin", !.prior = cached]

(* ------------------------------------------------------------- __main__ - *)
MainConfigure ==
    /\ launch = "script" /\ mainpc = "start"
    /\ \E a \in Args :
          /\ args' = Some(a)
          /\ model_path_g' = Some(a.model_path)
          /\ device_g' = Some(a.device)
    /\ mainpc' = "init"
    /\ th' = [th EXCEPT ![MainThread] = BeginCall]
    /\ calls' = calls + 1
    /\ last' = NoLast
    /\ UNCHANGED <<hw, launch, startup, exit_status, pipeline, environ, cpu_count,
                   made, cached>>

MainReturned == mainpc = "init" /\ th[MainThread].pc = "idle" /\ last.op = "init"

(* MainExit without sys.exit(1): the server starts all the same. *)
MainExit_KeepsRunning ==
    /\ launch = "script" /\ MainReturned /\ last.result = "False"
    /\ mainpc' = "serving"
    /\ startup' = last.why
    /\ last' = NoLast
    /\ UNCHANGED <<hw, launch, args, exit_status, glob, cpu_count, th, made, calls, cached>>

MainExit ==
    /\ launch = "script" /\ MainReturned /\ last.result = "False"
    /\ mainpc' = "exited"
    /\ startup' = last.why
    /\ exit_status' = Some(1)
    /\ last' = NoLast
    /\ UNCHANGED <<hw, launch, args, glob, cpu_count, th, made, calls, cached>>

MainServe ==
    /\ launch = "script" /\ MainReturned /\ last.result = "True"
    /\ mainpc' = "serving"
    /\ startup' = "ok"
    /\ last' = NoLast
    /\ UNCHANGED <<hw, launch, args, exit_status, glob, cpu_count, th, made, calls, cached>>

(* -------------------------------------------- the module used by a host - *)
HostConfigure ==
    /\ launch = "imported" /\ model_path_g = None /\ device_g = None
    /\ \E a \in Args :
          /\ model_path_g' = Some(a.model_path)
          /\ device_g' = Some(a.device)
    /\ last' = NoLast
    /\ UNCHANGED <<hw, proc, pipeline, environ, cpu_count, th, made, calls, cached>>

CallInitialize(t) ==
    /\ launch = "imported" /\ Free(t)
    /\ calls < MaxCalls
    /\ calls' = calls + 1
    /\ th' = [th EXCEPT ![t] = BeginCall]
    /\ last' = NoLast
    /\ UNCHANGED <<hw, proc, glob, cpu_count, made, cached>>

(* --------------------------------------------------- initialize_pipeline - *)
ParseDevices(s) ==
    LET parts == StrSplit(s, ",")
    IN  [k \in 1..Len(parts) |-> StrUpper(StrStrip(parts[k]))]

PathOk == model_path_g # None /\ Val(model_path_g) # "" /\ IsDir(Val(model_path_g))

(* What a returning call of initialize_pipeline hands back and has printed. *)
Returned(t, result, why) ==
    [NoLast EXCEPT !.op = "init", !.result = result, !.why = why,
                   !.devices = th[t].devices, !.tried = th[t].tried,
                   !.failed = th[t].failed, !.inst = th[t].inst,
                   !.prior = th[t].prior,
                   !.fatal = IF why = "exhausted" THEN Some(th[t].devices) ELSE None]

(* IpBegin with line 50 left out: the attempts start on the environment as *)
(* it was.                                                                 *)
IpBegin_NoEnv(t) ==
    /\ Running /\ th[t].pc = "ip_begin"
    /\ IF ~PathOk
       THEN /\ th' = [th EXCEPT ![t] = IdleTh]
            /\ last' = Returned(t, "False", "path")
       ELSE LET devices == ParseDevices(Val(device_g)) IN
            /\ th' = [th EXCEPT ![t].pc = "ip_attempting",
                                ![t].devices = devices, ![t].i = 1,
                                ![t].tried = <<devices[1]>>]
            /\ last' = NoLast
    /\ UNCHANGED <<hw, proc, glob, cpu_count, made, calls, cached>>

(* IpBegin whose early return clears the pipeline, as lines 62-64 do. *)
IpBegin_ClearsPipeline(t) ==
    /\ Running /\ th[t].pc = "ip_begin"
    /\ IF ~PathOk
       THEN /\ th' = [th EXCEPT ![t] = IdleTh]
            /\ last' = Returned(t, "False", "path")
            /\ pipeline' = None
            /\ UNCHANGED <<environ, cpu_count>>
       ELSE LET devices == ParseDevices(Val(device_g)) IN
            /\ th' = [th EXCEPT ![t].pc = "ip_attempting",
                                ![t].devices = devices, ![t].i = 1,
                                ![t].tried = <<devices[1]>>]
            /\ last' = NoLast
            /\ pipeline' = pipeline
            /\ \E n \in CpuCount(devices) :
                  /\ cpu_count' = n
                  /\ environ' = set_performance_env_vars(environ, devices, n)
    /\ UNCHANGED <<hw, proc, model_path_g, device_g, made, calls, cached>>

(* Lines 41-53: the path check, the device list, the environment, and the  *)
(* announcement of the first attempt.                                      *)
IpBegin(t) ==
    /\ Running /\ th[t].pc = "ip_begin"
    /\ IF ~PathOk
       THEN /\ th' = [th EXCEPT ![t] = IdleTh]
            /\ last' = Returned(t, "False", "path")
            /\ UNCHANGED <<environ, cpu_count>>
       ELSE LET devices == ParseDevices(Val(device_g)) IN
            /\ th' = [th EXCEPT ![t].pc = "ip_attempting",
                                ![t].devices = devices, ![t].i = 1,
                                ![t].tried = <<devices[1]>>]
            /\ last' = NoLast
            /\ \E n \in CpuCount(devices) :
                  /\ cpu_count' = n
                  /\ environ' = set_performance_env_vars(environ, devices, n)
    /\ UNCHANGED <<hw, proc, pipeline, model_path_g, device_g, made, calls, cached>>

(* LLMPipeline(model_path_g, device): the engine, which is not part of the  *)
(* repository, returns a pipeline (TRUE) or raises (FALSE) as it pleases;   *)
(* it has no device of the empty name.                                      *)
EngineOutcomes(device) == IF device = <<>> THEN {FALSE} ELSE BOOLEAN

(* IpAttempt with the loop advancing by two after a failure. *)
IpAttempt_SkipsNext(t) ==
    /\ Running /\ th[t].pc = "ip_attempting"
    /\ \E ok \in EngineOutcomes(th[t].devices[th[t].i]) :
       LET device == th[t].devices[th[t].i]
           next == th[t].i + 2
       IN
       IF ok
       THEN /\ pipeline' = Some([id |-> made + 1, device |-> device])
            /\ made' = made + 1
            /\ th' = [th EXCEPT ![t].pc = "ip_setdev",
                        ![t].inst = Some([id |-> made + 1, device |-> device])]
            /\ last' = NoLast
       ELSE IF next <= Len(th[t].devices)
       THEN /\ th' = [th EXCEPT ![t].i = next,
                        ![t].failed = Append(@, device),
                        ![t].tried = Append(@, th[t].devices[next])]
            /\ last' = NoLast
            /\ UNCHANGED <<pipeline, made>>
       ELSE /\ pipeline' = None
            /\ th' = [th EXCEPT ![t] = IdleTh]
            /\ last' = [Returned(t, "False", "exhausted")
                          EXCEPT !.failed = Append(@, device)]
            /\ made' = made
    /\ UNCHANGED <<hw, proc, model_path_g, device_g, environ, cpu_count, calls,
                   cached>>

(* IpAttempt giving up after the first failure, and without line 63. *)
IpAttempt_GivesUp(t) ==
    /\ Running /\ th[t].pc = "ip_attempting"
    /\ \E ok \in EngineOutcomes(th[t].devices[th[t].i]) :
       LET device == th[t].devices[th[t].i] IN
       IF ok
       THEN /\ pipeline' = Some([id |-> made + 1, device |-> device])
            /\ made' = made + 1
            /\ th' = [th EXCEPT ![t].pc = "ip_setdev",
                        ![t].inst = Some([id |-> made + 1, device |-> device])]
            /\ last' = NoLast
       ELSE /\ th' = [th EXCEPT ![t] = IdleTh]
            /\ last' = [Returned(t, "False", "exhausted")
                          EXCEPT !.failed = Append(@, device)]
            /\ UNCHANGED <<pipeline, made>>
    /\ UNCHANGED <<hw, proc, model_path_g, device_g, environ, cpu_count, calls,
                   cached>>

(* Lines 55-64: LLMPipeline(model_path_g, device) returns a pipeline (ok),  *)
(* or raises; then the next device is announced, or none is left.           *)
IpAttempt(t) ==
    /\ Running /\ th[t].pc = "ip_attempting"
    /\ \E ok \in EngineOutcomes(th[t].devices[th[t].i]) :
       LET device == th[t].devices[th[t].i]
           next == th[t].i + 1
       IN
       IF ok
       THEN /\ pipeline' = Some([id |-> made + 1, device |-> device])
            /\ made' = made + 1
            /\ th' = [th EXCEPT ![t].pc = "ip_setdev",
                        ![t].inst = Some([id |-> made + 1, device |-> device])]
            /\ last' = NoLast
       ELSE IF next <= Len(th[t].devices)
       THEN /\ th' = [th EXCEPT ![t].i = next,
                        ![t].failed = Append(@, device),
                        ![t].tried = Append(@, th[t].devices[next])]
            /\ last' = NoLast
            /\ UNCHANGED <<pipeline, made>>
       ELSE /\ pipeline' = None
            /\ th' = [th EXCEPT ![t] = IdleTh]
            /\ last' = [Returned(t, "False", "exhausted")
                          EXCEPT !.failed = Append(@, device)]
            /\ made' = made
    /\ UNCHANGED <<hw, proc, model_path_g, device_g, environ, cpu_count, calls,
                   cached>>

IpSetDevice(t) ==
    /\ Running /\ th[t].pc = "ip_setdev"
    /\ device_g' = Some(th[t].devices[th[t].i])
    /\ th' = [th EXCEPT ![t] = IdleTh]
    /\ last' = Returned(t, "True", "")
    /\ cached' = IF cached = None THEN th[t].inst ELSE cached
    /\ UNCHANGED <<hw, proc, pipeline, model_path_g, environ, cpu_count, made, calls>>

(* ------------------------------------------------------ request handlers - *)
Answered(t, op, body, resp, run) ==
    [NoLast EXCEPT !.op = op, !.body = body, !.resp = resp,
                   !.run = run]

HealthResponse ==
    IF pipeline # None
    THEN Resp(200, "", "", device_g)
    ELSE Resp(503, "LLM pipeline is not initialized.", "", None)

health_check(t) ==
    /\ Running /\ Serving /\ Free(t)
    /\ last' = Answered(t, "health", NoBody, HealthResponse, None)
    /\ UNCHANGED <<hw, proc, glob, cpu_count, th, made, calls, cached>>

(* request.get_json() raises BadRequest on a body that does not parse. *)
GetJsonRaises(body) == body.kind = "malformed"

(* Lines 119-133: the response decided before the pipeline is called, or    *)
(* NoResp when the handler goes on to call it.                              *)
GenerateEarly(body) ==
    IF pipeline = None
    THEN Resp(500, "LLMPipeline not initialized. Check server logs.", "", None)
    ELSE IF GetJsonRaises(body)
    THEN Resp(500, "An error occurred during text generation", "", None)
    ELSE IF body.kind = "falsy"
    THEN Resp(400, "Invalid JSON in request body", "", None)
    ELSE IF body.kind = "array"
    THEN Resp(500, "An error occurred during text generation", "", None)
    ELSE IF body.prompt = None \/ Val(body.prompt) = ""
    THEN Resp(400, "Missing 'prompt' in request body", "", None)
    ELSE NoResp

GenerateStart(t) ==
    /\ Running /\ Serving /\ Free(t)
    /\ \E body \in Bodies :
          LET r == GenerateEarly(body) IN
          IF r = NoResp
          THEN /\ th' = [th EXCEPT ![t] = [IdleTh EXCEPT !.pc = "gen_call",
                                                         !.body = body]]
               /\ last' = NoLast
          ELSE /\ last' = Answered(t, "generate", body, r, None)
               /\ th' = th
    /\ UNCHANGED <<hw, proc, glob, cpu_count, made, calls, cached>>

MaxNewTokens(body) ==
    IF body.max_new_tokens = None THEN DefaultMaxNewTokens ELSE Val(body.max_new_tokens)

(* Line 136, the call: the global is read again. *)
GenerateInvoke(t) ==
    /\ Running /\ th[t].pc = "gen_call"
    /\ IF pipeline = None
       THEN /\ th' = [th EXCEPT ![t] = IdleTh]
            /\ last' = Answered(t, "generate", th[t].body,
                         Resp(500, "An error occurred during text generation", "", None),
                         None)
       ELSE /\ th' = [th EXCEPT ![t].pc = "gen_running",
                        ![t].run = Some([id |-> Val(pipeline).id,
                                         prompt |-> Val(th[t].body.prompt),
                                         max_new_tokens |-> MaxNewTokens(th[t].body)])]
            /\ last' = NoLast
    /\ UNCHANGED <<hw, proc, glob, cpu_count, made, calls, cached>>

(* GenerateFinish that drops the pipeline when the call raised. *)
GenerateFinish_DropsPipeline(t) ==
    /\ Running /\ th[t].pc = "gen_running"
    /\ \E out \in {"raise", "", "generated"} :
          /\ last' = Answered(t, "generate", th[t].body,
                       IF out = "raise"
                       THEN Resp(500, "An error occurred during text generation", "", None)
                       ELSE Resp(200, "", out, None),
                       th[t].run)
          /\ pipeline' = IF out = "raise" THEN None ELSE pipeline
    /\ th' = [th EXCEPT ![t] = IdleTh]
    /\ UNCHANGED <<hw, proc, model_path_g, device_g, environ, cpu_count, made,
                   calls, cached>>

(* Line 136, the return: the pipeline's text, or an exception (lines 141-143). *)
GenerateFinish(t) ==
    /\ Running /\ th[t].pc = "gen_running"
    /\ \E out \in {"raise", "", "generated"} :
          last' = Answered(t, "generate", th[t].body,
                    IF out = "raise"
                    THEN Resp(500, "An error occurred during text generation", "", None)
                    ELSE Resp(200, "", out, None),
                    th[t].run)
    /\ th' = [th EXCEPT ![t] = IdleTh]
    /\ UNCHANGED <<hw, proc, glob, cpu_count, made, calls, cached>>

Next ==
    \/ MainConfigure
    \/ MainExit
    \/ MainServe
    \/ HostConfigure
    \/ \E t \in Threads :
          \/ CallInitialize(t)
          \/ IpBegin(t)
          \/ IpAttempt(t)
          \/ IpSetDevice(t)
          \/ health_check(t)
          \/ GenerateStart(t)
          \/ GenerateInvoke(t)
          \/ GenerateFinish(t)

Spec == Init /\ [][Next]_vars

(* ---------------------------------- a host that assigns the path again --- *)
(* model_path_g is a module global (line 12): a host that imported the      *)
(* module may assign it between calls of initialize_pipeline, also after a  *)
(* call has set the pipeline. The request handlers write none of the        *)
(* globals and are left to Spec.                                            *)
HostSetModelPath ==
    /\ launch = "imported" /\ model_path_g # None
    /\ \E p \in ModelPathArgs :
          /\ Some(p) # model_path_g
          /\ model_path_g' = Some(p)
    /\ last' = NoLast
    /\ UNCHANGED <<hw, proc, pipeline, device_g, environ, cpu_count, th, made,
                   calls, cached>>

InitHost == Init /\ launch = "imported"

NextHost ==
    \/ HostConfigure
    \/ HostSetModelPath
    \/ \E t \in Threads :
          \/ CallInitialize(t)
          \/ IpBegin(t)
          \/ IpAttempt(t)
          \/ IpSetDevice(t)

SpecHost == InitHost /\ [][NextHost]_vars

(* ======================================================================== *)
(* hardware_analyzer.py: the probes, the report, and main.                  *)
(* A program text or a tool's output is a sequence of one-character         *)
(* strings, as a str above.                                                 *)
(* ------------------------------------------------------ re.search -------- *)
IsDigit(c) == c \in {"0", "1", "2", "3", "4", "5", "6", "7", "8", "9"}

StartsAt(text, p, lit) ==
    /\ p + Len(lit) - 1 <= Len(text)
    /\ SubSeq(text, p, p + Len(lit) - 1) = lit

(* The longest run from position p of characters of the class: "." is any   *)
(* character but the newline, \d a digit.                                   *)
InClass(cls, c) == IF cls = "digit" THEN IsDigit(c) ELSE c # "\n"

ClassRun(text, p, cls) ==
    LET e == CHOOSE j \in (p - 1)..Len(text) :
                /\ \A h \in p..j : InClass(cls, text[h])
                /\ (j = Len(text) \/ ~InClass(cls, text[j + 1]))
    IN  SubSeq(text, p, e)

WsRun(text, q) ==
    CHOOSE j \in 0..(Len(text) - q + 1) :
       /\ \A h \in q..(q + j - 1) : IsSpace(text[h])
       /\ (q + j > Len(text) \/ ~IsSpace(text[q + j]))

(* re.search(lit (\s+)? (cls+), text).group(1), or None: the leftmost       *)
(* occurrence of the literal that can be completed, \s+ taking as much      *)
(* white space as leaves the group a first character.                       *)
re_search(lit, ws, cls, text) ==
    LET Gaps(p) == IF ws THEN 1..WsRun(text, p + Len(lit)) ELSE {0}
        Fits(p, j) ==
            /\ StartsAt(text, p, lit)
            /\ j \in Gaps(p)
            /\ p + Len(lit) + j <= Len(text)
            /\ InClass(cls, text[p + Len(lit) + j])
        Hits == {p \in 1..Len(text) : \E j \in 0..Len(text) : Fits(p, j)}
    IN  IF Hits = {} THEN None
        ELSE LET p == CHOOSE x \in Hits : \A y \in Hits : x <= y
                 j == CHOOSE x \in 0..Len(text) :
                         Fits(p, x) /\ \A y \in 0..Len(text) : Fits(p, y) => y <= x
             IN  Some(ClassRun(text, p + Len(lit) + j, cls))

DigitVal(c) == CHOOSE d \in 0..9 : Digit(d) = c

RECURSIVE StrInt(_)
StrInt(s) ==
    IF s = <<>> THEN 0 ELSE 10 * StrInt(SubSeq(s, 1, Len(s) - 1)) + DigitVal(s[Len(s)])

(* ------------------------------------------------------ the probe tools -- *)
(* What subprocess.run(cmd, shell=True, check=False, timeout=...) comes to: *)
(* the shell returns with an exit status and the tool's standard output,    *)
(* the timeout expires, or another exception is raised.                     *)
Exited(code, stdout) == [kind |-> "exit", code |-> code, stdout |-> stdout]
TimedOut == [kind |-> "timeout", code |-> 0, stdout |-> <<>>]
Raised == [kind |-> "raise", code |-> 0, stdout |-> <<>>]
NotRun == [kind |-> "notrun", code |-> 0, stdout |-> <<>>]

run_command(o) ==
    IF o.kind = "exit" THEN o.stdout
    ELSE IF o.kind = "timeout"
    THEN <<"C", "o", "m", "m", "a", "n", "d", " ", "t", "i", "m", "e", "d",
           " ", "o", "u", "t">>
    ELSE <<"E", "r", "r", "o", "r", ":", " ", "[", "E", "r", "r", "n", "o",
           " ", "1", "2", "]", " ", "E", "N", "O", "M", "E", "M">>

DmiGood ==
    <<"\t", "M", "a", "n", "u", "f", "a", "c", "t", "u", "r", "e", "r",
      ":", " ", "D", "e", "l", "l", " ", "I", "n", "c", ".", " ", "\n",
      "\t", "P", "r", "o", "d", "u", "c", "t", " ", "N", "a", "m", "e",
      ":", " ", "L", "5", "4", "5", "0", "\n">>
DmiGarbled == <<"M", "a", "n", "u", "f", "a", "c", "t", "u", "r", "e", "r",
                ":", "\n">>
LscpuGood ==
    <<"C", "P", "U", "(", "s", ")", ":", " ", " ", "1", "6", "\n", "M",
      "o", "d", "e", "l", " ", "n", "a", "m", "e", ":", " ", " ", " ", "U",
      "l", "t", "r", "a", " ", "9", "\n">>
LscpuGarbled == <<"M", "o", "d", "e", "l", " ", "n", "a", "m", "e", ":",
                  " ", " ", "\n">>
FreeGood == <<"M", "e", "m", ":", " ", " ", " ", "3", "3", "4", "5", "4",
              "5", "5", "4", " ", "1", "2", "3", "4", "5", "\n">>
FreeGarbled == <<"M", "e", "m", ":", " ", "n", "/", "a", "\n">>

(* Each tool's outcomes: well-formed output; no output; output not of the   *)
(* tool's shape; the tool missing (status 127 from the shell); a failure    *)
(* with status 1 after output was written; a timeout; an exception.         *)
Outcomes(good, garbled) ==
    {Exited(0, good), Exited(0, <<>>), Exited(0, garbled), Exited(127, <<>>),
     Exited(1, good), TimedOut, Raised}

DmiOutcomes == Outcomes(DmiGood, DmiGarbled)
LscpuOutcomes == Outcomes(LscpuGood, LscpuGarbled)
FreeOutcomes == Outcomes(FreeGood, FreeGarbled)

(* platform.node(), platform.system(), platform.release() *)
HostName == <<"h", "o", "s", "t", "1">>
OsName == <<"L", "i", "n", "u", "x">>
KernelRelease == <<"6", ".", "8", ".", "0">>

(* ------------------------------------------------------ Python values ---- *)
(* A value of the report: str, int, float (n / 1024**3), bool, list, or a    *)
(* dict, whose items are its keys and values in insertion order.             *)
PyStr(s) == [t |-> "str", s |-> s, n |-> 0, items |-> <<>>]
PyInt(n) == [t |-> "int", s |-> <<>>, n |-> n, items |-> <<>>]
PyFloat(n) == [t |-> "float", s |-> <<>>, n |-> n, items |-> <<>>]
PyBool(b) == [t |-> "bool", s |-> <<>>, n |-> IF b THEN 1 ELSE 0, items |-> <<>>]
PyList(items) == [t |-> "list", s |-> <<>>, n |-> 0, items |-> items]
PyDict(items) == [t |-> "dict", s |-> <<>>, n |-> 0, items |-> items]
Item(k, v) == [k |-> k, v |-> v]

DictHas(d, k) == \E j \in 1..Len(d.items) : d.items[j].k = k
DictGet(d, k) == d.items[CHOOSE j \in 1..Len(d.items) : d.items[j].k = k].v
DictSet(d, k, v) ==
    IF DictHas(d, k)
    THEN PyDict([j \in 1..Len(d.items) |->
                   IF d.items[j].k = k THEN Item(k, v) ELSE d.items[j]])
    ELSE PyDict(Append(d.items, Item(k, v)))

(* self.results[section][key] = v *)
SetField(results, section, key, v) ==
    DictSet(results, section, DictSet(DictGet(results, section), key, v))

HasField(results, section, key) == DictHas(DictGet(results, section), key)
Field(results, section, key) == DictGet(DictGet(results, section), key)

(* self.results of __init__ *)
ResultsInit ==
    PyDict(<<Item("platform", PyDict(<<>>)), Item("cpu", PyDict(<<>>)),
             Item("npu", PyDict(<<>>)), Item("gna", PyDict(<<>>)),
             Item("gpu", PyDict(<<>>)), Item("memory", PyDict(<<>>)),
             Item("security", PyDict(<<>>)),
             Item("military_features", PyDict(<<>>)),
             Item("optimizations", PyDict(<<>>)),
             Item("compiler_flags", PyDict(<<>>))>>)

(* ------------------------------------------------------ json ------------- *)
(* The text json.dumps writes, as its sequence of tokens; white space       *)
(* (indent=4) is not kept. A string token carries its characters; the token *)
(* of a dict key carries the key.                                           *)
Tok(k) == [k |-> k, s |-> <<>>, key |-> ""]
TokStr(s) == [k |-> "str", s |-> s, key |-> ""]
TokKey(key) == [k |-> "str", s |-> <<>>, key |-> key]
TokNum(s) == [k |-> "num", s |-> s, key |-> ""]

(* repr of the float n / 1024**3, written by its numerator and a point:     *)
(* float() of the literal repr gives is the float it was given.             *)
FloatRepr(n) == IntStr(n) \o <<".">>

RECURSIVE Dumps(_), DumpItems(_), DumpElems(_)
Dumps(v) ==
    CASE v.t = "dict" -> <<Tok("{")>> \o DumpItems(v.items) \o <<Tok("}")>>
      [] v.t = "list" -> <<Tok("[")>> \o DumpElems(v.items) \o <<Tok("]")>>
      [] v.t = "str" -> <<TokStr(v.s)>>
      [] v.t = "int" -> <<TokNum(IntStr(v.n))>>
      [] v.t = "float" -> <<TokNum(FloatRepr(v.n))>>
      [] v.t = "bool" -> <<Tok(IF v.n = 1 THEN "true" ELSE "false")>>

DumpItems(items) ==
    IF items = <<>> THEN <<>>
    ELSE <<TokKey(items[1].k), Tok(":")>> \o Dumps(items[1].v)
         \o (IF Len(items) = 1 THEN <<>> ELSE <<Tok(",")>> \o DumpItems(Tail(items)))

DumpElems(items) ==
    IF items = <<>> THEN <<>>
    ELSE Dumps(items[1])
         \o (IF Len(items) = 1 THEN <<>> ELSE <<Tok(",")>> \o DumpElems(Tail(items)))

(* json.loads: the value a token sequence denotes, or no value              *)
(* (JSONDecodeError).                                                       *)
Parsed(v, next) == [ok |-> TRUE, v |-> v, next |-> next]
ParseFail == [ok |-> FALSE, v |-> PyDict(<<>>), next |-> 0]

ParseNum(s) ==
    IF s # <<>> /\ s[Len(s)] = "."
    THEN PyFloat(StrInt(SubSeq(s, 1, Len(s) - 1)))
    ELSE PyInt(StrInt(s))

RECURSIVE ParseValue(_, _), ParseItems(_, _, _), ParseElems(_, _, _)
ParseValue(toks, i) ==
    IF i > Len(toks) THEN ParseFail
    ELSE CASE toks[i].k = "{" ->
                 IF i + 1 <= Len(toks) /\ toks[i + 1].k = "}"
                 THEN Parsed(PyDict(<<>>), i + 2)
                 ELSE ParseItems(toks, i + 1, PyDict(<<>>))
           [] toks[i].k = "[" ->
                 IF i + 1 <= Len(toks) /\ toks[i + 1].k = "]"
                 THEN Parsed(PyList(<<>>), i + 2)
                 ELSE ParseElems(toks, i + 1, <<>>)
           [] toks[i].k = "str" -> Parsed(PyStr(toks[i].s), i + 1)
           [] toks[i].k = "num" -> Parsed(ParseNum(toks[i].s), i + 1)
           [] toks[i].k = "true" -> Parsed(PyBool(TRUE), i + 1)
           [] toks[i].k = "false" -> Parsed(PyBool(FALSE), i + 1)
           [] OTHER -> ParseFail

ParseItems(toks, i, acc) ==
    IF i + 1 > Len(toks) \/ toks[i].k # "str" \/ toks[i + 1].k # ":" THEN ParseFail
    ELSE LET r == ParseValue(toks, i + 2) IN
         IF ~r.ok \/ r.next > Len(toks) THEN ParseFail
         ELSE LET d == DictSet(acc, toks[i].key, r.v) IN
              IF toks[r.next].k = "}" THEN Parsed(d, r.next + 1)
              ELSE IF toks[r.next].k = "," THEN ParseItems(toks, r.next + 1, d)
              ELSE ParseFail

ParseElems(toks, i, acc) ==
    LET r == ParseValue(toks, i) IN
    IF ~r.ok \/ r.next > Len(toks) THEN ParseFail
    ELSE IF toks[r.next].k = "]" THEN Parsed(PyList(Append(acc, r.v)), r.next + 1)
    ELSE IF toks[r.next].k = "," THEN ParseElems(toks, r.next + 1, Append(acc, r.v))
    ELSE ParseFail

Loads(toks) ==
    LET r == ParseValue(toks, 1) IN
    IF r.ok /\ r.next = Len(toks) + 1 THEN r ELSE ParseFail

(* The text of a stream: what was printed to it, in order. *)
RECURSIVE StreamText(_)
StreamText(prints) ==
    IF prints = <<>> THEN <<>> ELSE prints[1] \o StreamText(Tail(prints))

(* ------------------------------------------------------ analyzer state --- *)
(* What each probe of a run found: the outcome of each tool's command, and  *)
(* for each os.path.exists whether the path was there.                      *)
NoProbes ==
    [dmidecode |-> NotRun, lscpu |-> NotRun, free |-> NotRun,
     npu |-> None, gna |-> None, gpu |-> None, tpm |-> None]

HwResp(status, error, data) == [status |-> status, error |-> error, data |-> data]
NoHwResp == HwResp(0, "", PyDict(<<>>))

(* hw: the position of the analyzer process and of the /hardware handler    *)
(* that waits for it, the analyzer's fields, what it has printed, the       *)
(* handler's response, and the numbers of requests taken and of analyzer    *)
(* processes started.                                                       *)
HwOff ==
    [pc |-> "off", mode |-> "none", json |-> FALSE, has_sudo |-> FALSE,
     results |-> ResultsInit, probes |-> NoProbes, stdout |-> <<>>,
     stderr |-> <<>>, analyses |-> 0, resp |-> NoHwResp, requests |-> 0,
     runs |-> 0]

server ==
    <<launch, mainpc, startup, exit_status, args, pipeline, model_path_g,
      device_g, environ, cpu_count, th, last, made, calls, cached>>

InitHW ==
    /\ launch = "imported"
    /\ mainpc = "start"
    /\ startup = "none"
    /\ exit_status = None
    /\ args = None
    /\ pipeline = None
    /\ model_path_g = None
    /\ device_g = None
    /\ environ = EnvInit
    /\ cpu_count = "unread"
    /\ th = [t \in Threads |-> IdleTh]
    /\ last = NoLast
    /\ made = 0
    /\ calls = 0
    /\ cached = None
    /\ hw = HwOff

(* python3 hardware_analyzer.py [--json] from a shell. *)
AnalyzerCli ==
    /\ hw.pc = "off" /\ hw.requests = 0
    /\ \E json \in BOOLEAN :
          hw' = [HwOff EXCEPT !.pc = "construct", !.mode = "cli", !.json = json]
    /\ UNCHANGED server

(* get_hardware_info answering a later request from the report it already  *)
(* has, without a new analyzer process.                                    *)
get_hardware_info_Cached ==
    /\ hw.mode # "cli" /\ hw.pc \in {"off", "answered"}
    /\ hw.requests < MaxRequests
    /\ IF hw.pc = "answered" /\ hw.resp.status = 200
       THEN hw' = [hw EXCEPT !.requests = @ + 1]
       ELSE \E sub \in {"FileNotFoundError", "CalledProcessError", "completed"} :
          hw' = IF sub = "completed"
                THEN [HwOff EXCEPT !.pc = "construct", !.mode = "handler",
                                   !.json = TRUE,
                                   !.requests = hw.requests + 1,
                                   !.runs = hw.runs + 1]
                ELSE [HwOff EXCEPT !.pc = "answered", !.mode = "handler",
                                   !.requests = hw.requests + 1,
                                   !.runs = hw.runs,
                                   !.resp =
                                      HwResp(500,
                                             IF sub = "FileNotFoundError"
                                             THEN "Hardware analyzer script not found."
                                             ELSE "Failed to execute hardware analyzer.",
                                             PyDict(<<>>))]
    /\ UNCHANGED server

(* GET /hardware, lines 89-107: subprocess.run of the analyzer with --json. *)
(* python3 is not found, or the child exits with a status other than 0 (the *)
(* script is not in the working directory), or the analyzer runs.           *)
get_hardware_info ==
    /\ hw.mode # "cli" /\ hw.pc \in {"off", "answered"}
    /\ hw.requests < MaxRequests
    /\ \E sub \in {"FileNotFoundError", "CalledProcessError", "completed"} :
          hw' = IF sub = "completed"
                THEN [HwOff EXCEPT !.pc = "construct", !.mode = "handler",
                                   !.json = TRUE,
                                   !.requests = hw.requests + 1,
                                   !.runs = hw.runs + 1]
                ELSE [HwOff EXCEPT !.pc = "answered", !.mode = "handler",
                                   !.requests = hw.requests + 1,
                                   !.runs = hw.runs,
                                   !.resp =
                                      HwResp(500,
                                             IF sub = "FileNotFoundError"
                                             THEN "Hardware analyzer script not found."
                                             ELSE "Failed to execute hardware analyzer.",
                                             PyDict(<<>>))]
    /\ UNCHANGED server

(* MilitaryHardwareAnalyzer.__init__ *)
MilitaryHardwareAnalyzer_init ==
    /\ hw.pc = "construct"
    /\ \E euid0 \in BOOLEAN :
          hw' = [hw EXCEPT !.pc = "analyze", !.has_sudo = euid0,
                           !.results = ResultsInit]
    /\ UNCHANGED server

(* analyze, lines 173-174 *)
analyze ==
    /\ hw.pc = "analyze"
    /\ hw' = [hw EXCEPT !.pc = "platform",
                        !.analyses = @ + 1,
                        !.stderr = IF hw.has_sudo THEN @
                                   ELSE Append(@, "WARNING: Running without sudo privileges.")]
    /\ UNCHANGED server

(* PlatformResults without the .strip() of lines 198-199. *)
PlatformResults_NoStrip(results, has_sudo, o) ==
    LET r1 == SetField(results, "platform", "hostname", PyStr(HostName))
        r2 == SetField(r1, "platform", "os", PyStr(OsName))
        r3 == SetField(r2, "platform", "kernel", PyStr(KernelRelease))
        dmi_output == run_command(o)
        manufacturer == re_search(<<"M", "a", "n", "u", "f", "a", "c", "t",
                                    "u", "r", "e", "r", ":", " ">>, FALSE, "dot", dmi_output)
        product == re_search(<<"P", "r", "o", "d", "u", "c", "t", " ", "N",
                               "a", "m", "e", ":", " ">>, FALSE, "dot", dmi_output)
        r4 == IF dmi_output # <<>> /\ manufacturer # None
              THEN SetField(r3, "platform", "manufacturer", PyStr(Val(manufacturer)))
              ELSE r3
        r5 == IF dmi_output # <<>> /\ product # None
              THEN SetField(r4, "platform", "model", PyStr(Val(product)))
              ELSE r4
    IN  IF has_sudo
        THEN SetField(r5, "platform", "is_military_edition", PyBool(TRUE))
        ELSE r3

PlatformResults(results, has_sudo, o) ==
    LET r1 == SetField(results, "platform", "hostname", PyStr(HostName))
        r2 == SetField(r1, "platform", "os", PyStr(OsName))
        r3 == SetField(r2, "platform", "kernel", PyStr(KernelRelease))
        dmi_output == run_command(o)
        manufacturer == re_search(<<"M", "a", "n", "u", "f", "a", "c", "t",
                                    "u", "r", "e", "r", ":", " ">>, FALSE, "dot", dmi_output)
        product == re_search(<<"P", "r", "o", "d", "u", "c", "t", " ", "N",
                               "a", "m", "e", ":", " ">>, FALSE, "dot", dmi_output)
        r4 == IF dmi_output # <<>> /\ manufacturer # None
              THEN SetField(r3, "platform", "manufacturer",
                            PyStr(StrStrip(Val(manufacturer))))
              ELSE r3
        r5 == IF dmi_output # <<>> /\ product # None
              THEN SetField(r4, "platform", "model", PyStr(StrStrip(Val(product))))
              ELSE r4
    IN  IF has_sudo
        THEN SetField(r5, "platform", "is_military_edition", PyBool(TRUE))
        ELSE r3

analyze_platform ==
    /\ hw.pc = "platform"
    /\ \E o \in (IF hw.has_sudo THEN DmiOutcomes ELSE {NotRun}) :
          hw' = [hw EXCEPT !.pc = "cpu", !.probes.dmidecode = o,
                           !.results = PlatformResults(@, hw.has_sudo, o)]
    /\ UNCHANGED server

CpuResults(results, o) ==
    LET cpu_info == run_command(o)
        model_match == re_search(<<"M", "o", "d", "e", "l", " ", "n", "a",
                                   "m", "e", ":">>, TRUE, "dot", cpu_info)
        cores_match == re_search(<<"C", "P", "U", "(", "s", ")", ":">>, TRUE, "digit", cpu_info)
        r1 == IF model_match # None
              THEN SetField(results, "cpu", "model", PyStr(StrStrip(Val(model_match))))
              ELSE results
    IN  IF cores_match # None
        THEN SetField(r1, "cpu", "cores",
                      PyDict(<<Item("total", PyInt(StrInt(Val(cores_match))))>>))
        ELSE r1

analyze_cpu ==
    /\ hw.pc = "cpu"
    /\ \E o \in LscpuOutcomes :
          hw' = [hw EXCEPT !.pc = "npu", !.probes.lscpu = o,
                           !.results = CpuResults(@, o)]
    /\ UNCHANGED server

analyze_npu ==
    /\ hw.pc = "npu"
    /\ \E npu_exists \in BOOLEAN :
          hw' = [hw EXCEPT !.pc = "gna", !.probes.npu = Some(npu_exists),
                     !.results =
                        LET r1 == SetField(@, "npu", "detected", PyBool(npu_exists))
                        IN  IF npu_exists
                            THEN SetField(r1, "npu", "model",
                                          PyStr(<<"I", "n", "t", "e", "l",
                                                  " ", "N", "P", "U", " ",
                                                  "3", "7", "2", "0">>))
                            ELSE r1]
    /\ UNCHANGED server

analyze_gna ==
    /\ hw.pc = "gna"
    /\ \E exists \in BOOLEAN :
          hw' = [hw EXCEPT !.pc = "gpu", !.probes.gna = Some(exists),
                     !.results = SetField(@, "gna", "detected", PyBool(exists))]
    /\ UNCHANGED server

analyze_gpu ==
    /\ hw.pc = "gpu"
    /\ \E exists \in BOOLEAN :
          hw' = [hw EXCEPT !.pc = "memory", !.probes.gpu = Some(exists),
                     !.results = SetField(@, "gpu", "detected", PyBool(exists))]
    /\ UNCHANGED server

MemoryResults(results, o) ==
    LET mem_info == run_command(o)
        total_match == re_search(<<"M", "e", "m", ":">>, TRUE, "digit", mem_info)
    IN  IF total_match # None
        THEN SetField(results, "memory", "total_gb", PyFloat(StrInt(Val(total_match))))
        ELSE results

analyze_memory ==
    /\ hw.pc = "memory"
    /\ \E o \in FreeOutcomes :
          hw' = [hw EXCEPT !.pc = "security", !.probes.free = o,
                           !.results = MemoryResults(@, o)]
    /\ UNCHANGED server

analyze_security ==
    /\ hw.pc = "security"
    /\ \E exists \in BOOLEAN :
          hw' = [hw EXCEPT !.pc = "flags", !.probes.tpm = Some(exists),
                     !.results = SetField(@, "security", "tpm_present", PyBool(exists))]
    /\ UNCHANGED server

(* detect_military_features and analyze_performance do nothing; then        *)
(* derive_compiler_flags, and analyze returns self.results.                 *)
derive_compiler_flags ==
    /\ hw.pc = "flags"
    /\ hw' = [hw EXCEPT !.pc = "analyzed",
                 !.results =
                    SetField(@, "compiler_flags", "environment",
                       PyList(<<PyStr(
                          <<"O", "P", "E", "N", "V", "I", "N", "O", "_",
                            "H", "E", "T", "E", "R", "O", "_", "P", "R",
                            "I", "O", "R", "I", "T", "Y", "=", "N", "P",
                            "U", ",", "G", "P", "U", ",", "C", "P", "U">>)>>))]
    /\ UNCHANGED server

(* main printing the report and then the summary as well. *)
main_PrintsSummaryToo ==
    /\ hw.pc = "analyzed"
    /\ hw' = [hw EXCEPT !.pc = IF hw.mode = "cli" THEN "exited" ELSE "parse",
                        !.stdout = Append(Append(@, Dumps(hw.results)),
                                          Dumps(hw.results))]
    /\ UNCHANGED server

(* main, lines 255-258: print(json.dumps(report, indent=4)), or             *)
(* print_summary, which prints json.dumps(self.results, indent=4); the      *)
(* process ends.                                                            *)
main ==
    /\ hw.pc = "analyzed"
    /\ hw' = [hw EXCEPT !.pc = IF hw.mode = "cli" THEN "exited" ELSE "parse",
                        !.stdout = Append(@, Dumps(hw.results))]
    /\ UNCHANGED server

(* get_hardware_info, lines 98-100 and 108-110: json.loads(result.stdout). *)
get_hardware_info_return ==
    /\ hw.pc = "parse"
    /\ LET hardware_data == Loads(StreamText(hw.stdout)) IN
       hw' = [hw EXCEPT !.pc = "answered",
                 !.resp = IF hardware_data.ok
                          THEN HwResp(200, "", hardware_data.v)
                          ELSE HwResp(500, "Failed to parse hardware analyzer output.",
                                      PyDict(<<>>))]
    /\ UNCHANGED server

NextHW ==
    \/ AnalyzerCli
    \/ get_hardware_info
    \/ MilitaryHardwareAnalyzer_init
    \/ analyze
    \/ analyze_platform
    \/ analyze_cpu
    \/ analyze_npu
    \/ analyze_gna
    \/ analyze_gpu
    \/ analyze_memory
    \/ analyze_security
    \/ derive_compiler_flags
    \/ main
    \/ get_hardware_info_return

SpecHW == InitHW /\ [][NextHW]_vars

(* ====================================================== the claims ====== *)
InitPcs == {"ip_attempting", "ip_setdev"}

(* C1: sequential fallback. Whatever the priority list and whatever each     *)
(* engine initialization does, the entries of the list are attempted one at  *)
(* a time in list order: while a call runs, the devices it has attempted are *)
(* exactly the first i entries and the failures exactly the i-1 before the   *)
(* current one; the pipeline object of the first success becomes the global  *)
(* pipeline at that step; and when the call returns True nothing after the   *)
(* successful entry has been attempted, the failure history is the entries   *)
(* before it in list order, and device_g holds the successful backend.       *)
C1_InProgress ==
    \A t \in Threads :
       th[t].pc \in InitPcs =>
          /\ th[t].i \in 1..Len(th[t].devices)
          /\ th[t].tried = SubSeq(th[t].devices, 1, th[t].i)
          /\ th[t].failed = SubSeq(th[t].devices, 1, th[t].i - 1)
          /\ (th[t].pc = "ip_attempting" => th[t].inst = None)
          /\ (th[t].pc = "ip_setdev" =>
                /\ th[t].inst # None
                /\ Val(th[t].inst).device = th[t].devices[th[t].i])

C1_Returned ==
    (last.op = "init" /\ last.result = "True") =>
       LET k == Len(last.tried) IN
       /\ k \in 1..Len(last.devices)
       /\ last.tried = SubSeq(last.devices, 1, k)
       /\ last.failed = SubSeq(last.devices, 1, k - 1)
       /\ last.inst # None
       /\ Val(last.inst).device = last.devices[k]
       /\ device_g = Some(last.devices[k])
       /\ (launch = "script" => pipeline = last.inst)

C1_Step ==
    \A t \in Threads :
       (th[t].pc = "ip_attempting" /\ th'[t].pc = "ip_setdev") =>
          /\ pipeline' = th'[t].inst
          /\ Val(pipeline').device = th[t].devices[th[t].i]

C1_SequentialFallback == [](C1_InProgress /\ C1_Returned) /\ [][C1_Step]_vars

(* C1 witness: priority NPU,GPU,CPU, NPU and GPU failed, CPU succeeded.      *)
C1_Witness ==
    /\ last.op = "init" /\ last.result = "True"
    /\ last.devices = <<NPU, GPU, CPU>>
    /\ last.failed = <<NPU, GPU>>
    /\ Val(last.inst).device = CPU
    /\ device_g = Some(CPU)

(* C2: when initialization fails on every entry of the priority list, the    *)
(* call reports failure (returns False) only after every entry has been      *)
(* attempted and has failed, its final message names the whole list, and     *)
(* the global pipeline is None.                                              *)
C2_Exhausted ==
    (last.op = "init" /\ last.why = "exhausted") =>
       /\ last.result = "False"
       /\ last.devices # <<>>
       /\ last.tried = last.devices
       /\ last.failed = last.devices
       /\ last.fatal = Some(last.devices)
       /\ last.inst = None
       /\ pipeline = None

(* C2 witness: all three of NPU, GPU, CPU failed.                            *)
C2_Witness ==
    /\ last.op = "init" /\ last.why = "exhausted"
    /\ last.failed = <<NPU, GPU, CPU>>

(* C3: caching. Stated as claimed: a call of initialize_pipeline that begins *)
(* after an earlier call for the same model path has returned a pipeline     *)
(* returns that same pipeline object and makes no initialization attempt.    *)
C3_SecondCallReusesPipeline ==
    (last.op = "init" /\ last.result = "True" /\ last.prior # None) =>
       /\ pipeline = last.prior
       /\ last.tried = <<>>

(* C4: single flight. Stated as claimed: of the concurrent first-time calls  *)
(* of initialize_pipeline at most one is inside an engine initialization at  *)
(* any time, and they do not end up with different pipeline objects.         *)
C4_SingleFlight ==
    \A t, u \in Threads :
       (/\ t # u
        /\ th[t].pc \in InitPcs /\ th[u].pc \in InitPcs
        /\ th[t].prior = None /\ th[u].prior = None) =>
          /\ ~(th[t].pc = "ip_attempting" /\ th[u].pc = "ip_attempting")
          /\ (th[t].inst # None /\ th[u].inst # None => th[t].inst = th[u].inst)

(* C5: health. Stated as claimed: GET /health answers 503 while no engine    *)
(* initialization has succeeded, and 200 with the active backend as device   *)
(* in every state after a provisioning call has returned success.            *)
C5_HealthFollowsProvisioning ==
    last.op = "health" =>
       /\ (made = 0 => last.resp.status = 503)
       /\ (cached # None =>
             /\ last.resp.status = 200
             /\ pipeline # None
             /\ last.resp.device = Some(Val(pipeline).device))

(* C6: generate. Stated as claimed: the body {"prompt": ""} is answered 400; *)
(* a non-empty prompt whose pipeline call returned is answered 200, the      *)
(* pipeline having been invoked for it.                                      *)
C6_GenerateStatus ==
    last.op = "generate" =>
       /\ (last.body.prompt = Some("") => last.resp.status = 400)
       /\ (last.resp.status = 200 =>
             /\ last.run # None
             /\ last.body.prompt # None /\ Val(last.body.prompt) # "")

(* C7: validation first. Stated as claimed: a JSON object whose prompt is    *)
(* missing or empty is answered 400 whatever the state of the pipeline, and  *)
(* the pipeline is not invoked for it.                                       *)
C7_ValidationBeforePipeline ==
    (/\ last.op = "generate"
     /\ last.body.kind = "object"
     /\ (last.body.prompt = None \/ last.body.prompt = Some(""))) =>
       /\ last.resp.status = 400
       /\ last.run = None

(* C8: malformed JSON. Stated as claimed, for the server started by the      *)
(* script: with a pipeline in place, a body that is not well-formed JSON is  *)
(* answered 400 without the pipeline being invoked, and 500 is answered only *)
(* when there is no pipeline or the pipeline call was made and failed.       *)
C8_MalformedJsonIs400 ==
    (mainpc = "serving" /\ last.op = "generate") =>
       /\ (pipeline # None /\ last.body.kind = "malformed" =>
             last.resp.status = 400 /\ last.run = None)
       /\ (last.resp.status = 500 /\ last.body.kind # "malformed" =>
             pipeline = None \/ last.run # None)

(* C9: per-pipeline serialization. Stated as claimed, for the server started *)
(* by the script: no two request threads are inside a call of the same       *)
(* pipeline object at the same time.                                         *)
C9_OneGenerateAtATime ==
    \A t, u \in Threads :
       (/\ mainpc = "serving"
        /\ t # u /\ th[t].pc = "gen_running" /\ th[u].pc = "gen_running") =>
          Val(th[t].run).id # Val(th[u].run).id

C10_State ==
    /\ (launch = "script" /\ mainpc # "serving") =>
          /\ \A t \in Workers : th[t].pc = "idle"
          /\ last.op \notin {"health", "generate"}
    /\ startup = "exhausted" =>
          /\ mainpc = "exited"
          /\ exit_status = Some(1)
          /\ pipeline = None
    /\ launch = "script" => calls <= 1

C10_Step ==
    /\ (launch = "script" /\ mainpc = "init" /\ last.op = "init"
        /\ last.why = "exhausted") =>
          (mainpc' = "exited" /\ exit_status' = Some(1))
    /\ last'.op \in {"health", "generate"} =>
          UNCHANGED <<pipeline, device_g, made, calls>>

C11_NamesBackend(list) == \E k \in 1..Len(list) : list[k] # <<>>

C11_Canonical(list) ==
    \A j, k \in 1..Len(list) :
       /\ list[j] # <<>>
       /\ list[j] = StrUpper(StrStrip(list[j]))
       /\ (j # k => list[j] # list[k])

C11_ResolvedPriority ==
    \A t \in Threads :
       (th[t].pc \in InitPcs /\ C11_NamesBackend(th[t].devices)) =>
          C11_Canonical(th[t].devices) /\ C11_Canonical(th[t].tried)

(* C12: empty configuration. Stated as claimed: a configured list that is    *)
(* empty or holds only blank tokens is refused when it is resolved, before   *)
(* any engine initialization is attempted, and the script never serves with  *)
(* such a configuration.                                                     *)
C12_Blank(arg) == \A k \in 1..Len(arg) : arg[k] \in {" ", ","}

C12_EmptyConfigRejected ==
    /\ \A t \in Threads :
          th[t].pc \in InitPcs => \E k \in 1..Len(th[t].devices) : th[t].devices[k] # <<>>
    /\ (mainpc = "serving" => ~C12_Blank(Val(args).device))

(* C13: performance configuration precedes initialization. In every          *)
(* provisioning call, from before its first engine initialization attempt    *)
(* on, os.environ holds the ISA hint and the allocator hint at their fixed   *)
(* values, and, when CPU is an entry of the call's device list, both thread  *)
(* count hints hold the logical core count in decimal, or 1 when             *)
(* os.cpu_count() does not know it.                                          *)
C13_Threads == IF cpu_count = "None" THEN IntStr(1) ELSE IntStr(CoreCount)

C13_EnvBeforeAttempt ==
    \A t \in Threads :
       th[t].pc \in InitPcs =>
          /\ environ.ONEDNN_MAX_CPU_ISA = Some("AVX512_CORE_VNNI")
          /\ environ.TBB_MALLOC_USE_HUGE_PAGES = Some("1")
          /\ InList(CPU, th[t].devices) =>
                /\ cpu_count \in {"None", "cores"}
                /\ environ.OMP_NUM_THREADS = Some(C13_Threads)
                /\ environ.MKL_NUM_THREADS = Some(C13_Threads)

(* C13 witness: the first attempt of the start-up call on NPU,GPU,CPU is     *)
(* about to be made, the core count is unknown and the thread hints are "1". *)
C13_Witness ==
    /\ th[MainThread].pc = "ip_attempting" /\ th[MainThread].i = 1
    /\ made = 0
    /\ th[MainThread].devices = <<NPU, GPU, CPU>>
    /\ cpu_count = "None"
    /\ environ.OMP_NUM_THREADS = Some(<<"1">>)
    /\ environ.MKL_NUM_THREADS = Some(<<"1">>)

(* C14: composed (mixed) strategy. Stated as claimed: with the whole         *)
(* priority list written to OPENVINO_HETERO_PRIORITY before any attempt, a   *)
(* provisioning call issues exactly one engine initialization, with backend  *)
(* spec "MIXED", and a call that fails has failed on that one attempt.       *)
C14_MIXED == <<"M", "I", "X", "E", "D">>

C14_MixedComposition ==
    /\ \A t \in Threads :
          th[t].pc \in InitPcs =>
             /\ environ.OPENVINO_HETERO_PRIORITY # None
             /\ th[t].tried = <<C14_MIXED>>
    /\ (last.op = "init" /\ last.why = "exhausted") => last.failed = <<C14_MIXED>>

(* C20: the served process. The script serves requests only after its call   *)
(* of initialize_pipeline has returned True, and exits with status 1         *)
(* otherwise; while it serves, no step changes pipeline, device_g or         *)
(* model_path_g, whatever the requests and also when a generation raises.    *)
(* Hence in every state of the serving script the pipeline is set, device_g  *)
(* is the device of that pipeline and one entry of the configured priority   *)
(* list, /health answers 200 with that device, and /generate never answers   *)
(* "LLMPipeline not initialized".                                            *)
C20_State ==
    launch = "script" =>
       /\ (mainpc # "serving" => \A t \in Workers : th[t].pc = "idle")
       /\ (mainpc = "exited" => exit_status = Some(1) /\ startup \in {"path", "exhausted"})
       /\ (mainpc = "serving" =>
             /\ startup = "ok" /\ exit_status = None
             /\ pipeline # None /\ device_g # None
             /\ Val(pipeline).device = Val(device_g)
             /\ InList(Val(device_g), ParseDevices(Val(args).device))
             /\ model_path_g = Some(Val(args).model_path))
       /\ (last.op = "health" =>
             last.resp.status = 200 /\ last.resp.device = Some(Val(pipeline).device))
       /\ (last.op = "generate" =>
             last.resp.error # "LLMPipeline not initialized. Check server logs.")

C20_Step ==
    /\ (launch = "script" /\ mainpc # "serving" /\ mainpc' = "serving") =>
          (last.op = "init" /\ last.result = "True" /\ pipeline = last.inst)
    /\ (launch = "script" /\ mainpc = "serving") =>
          UNCHANGED <<pipeline, device_g, model_path_g, mainpc>>

C20_ServedProcess == []C20_State /\ [][C20_Step]_vars

(* C20 witness: the script, started with 'gpu, , GPU', serves on GPU; a      *)
(* generation has just raised and was answered 500; the pipeline is in place.*)
C20_Witness ==
    /\ launch = "script" /\ mainpc = "serving"
    /\ Val(args).device = ArgMessy
    /\ last.op = "generate" /\ last.resp.status = 500 /\ last.run # None
    /\ pipeline # None /\ device_g = Some(GPU)

(* ------------------------------------------------ the analyzer's claims -- *)
(* A run of analyze has written every field it is going to write. *)
HwAnalyzed == hw.pc = "analyzed"

HwAbsent(section, key) == ~HasField(hw.results, section, key)
HwEmpty(section, key) ==
    HwAbsent(section, key) \/ Field(hw.results, section, key) = PyStr(<<>>)

(* C15: probe robustness. Stated as claimed: whatever each tool does, no     *)
(* output, output not of its shape, the tool missing, a failure, a timeout   *)
(* or an exception, analyze comes to its end, the fields fed by a tool that  *)
(* failed are empty or absent, and every other probe has run and filled its  *)
(* own fields.                                                               *)
C15_Failed(o, good) == o # Exited(0, good)

C15_ProbeRobustness ==
    HwAnalyzed =>
       /\ hw.probes.lscpu # NotRun /\ hw.probes.free # NotRun
       /\ (hw.has_sudo => hw.probes.dmidecode # NotRun)
       /\ ~HwAbsent("npu", "detected") /\ ~HwAbsent("gna", "detected")
       /\ ~HwAbsent("gpu", "detected") /\ ~HwAbsent("security", "tpm_present")
       /\ IF C15_Failed(hw.probes.dmidecode, DmiGood)
          THEN HwEmpty("platform", "manufacturer") /\ HwEmpty("platform", "model")
          ELSE ~HwEmpty("platform", "manufacturer") /\ ~HwEmpty("platform", "model")
       /\ IF C15_Failed(hw.probes.lscpu, LscpuGood)
          THEN HwEmpty("cpu", "model") /\ HwAbsent("cpu", "cores")
          ELSE ~HwEmpty("cpu", "model") /\ ~HwAbsent("cpu", "cores")
       /\ IF C15_Failed(hw.probes.free, FreeGood)
          THEN HwAbsent("memory", "total_gb")
          ELSE ~HwAbsent("memory", "total_gb")

(* C16: no data from a failed tool. Stated as claimed: when a tool's command *)
(* ended with a status other than 0, or timed out, the fields it feeds are   *)
(* absent whatever it wrote to standard output, and analyze goes on.         *)
C16_NoData(o) == o.kind = "timeout" \/ (o.kind = "exit" /\ o.code # 0)

C16_FailedToolIsNoData ==
    HwAnalyzed =>
       /\ (C16_NoData(hw.probes.lscpu) =>
             HwAbsent("cpu", "model") /\ HwAbsent("cpu", "cores"))
       /\ (C16_NoData(hw.probes.free) => HwAbsent("memory", "total_gb"))
       /\ (C16_NoData(hw.probes.dmidecode) =>
             HwAbsent("platform", "manufacturer") /\ HwAbsent("platform", "model"))

(* C18: the report of well-formed probes. When the analyzer runs privileged  *)
(* and dmidecode returns well-formed output, platform.manufacturer and       *)
(* platform.model are the values of its Manufacturer and Product Name lines  *)
(* without surrounding white space; when lscpu does, cpu.model and           *)
(* cpu.cores.total are the values of its lines; when the NPU's device path   *)
(* exists npu.detected is true; when free -b does, memory.total_gb is        *)
(* present, the float of its Mem: total over 1024**3, and greater than 0.    *)
(* Each holds whatever the other probes of the run did.                      *)
C18_WellFormedReport ==
    HwAnalyzed =>
       /\ (hw.probes.dmidecode = Exited(0, DmiGood) =>
             /\ hw.has_sudo
             /\ ~HwAbsent("platform", "manufacturer")
             /\ Field(hw.results, "platform", "manufacturer") = PyStr(<<
                                                                        "D",
                                                                        "e",
                                                                        "l",
                                                                        "l",
                                                                        " ",
                                                                        "I",
                                                                        "n",
                                                                        "c",
                                                                        ".">>)
             /\ ~HwAbsent("platform", "model")
             /\ Field(hw.results, "platform", "model") = PyStr(<<"L", "5",
                                                                 "4", "5",
                                                                 "0">>))
       /\ (hw.probes.lscpu = Exited(0, LscpuGood) =>
             /\ ~HwAbsent("cpu", "model")
             /\ Field(hw.results, "cpu", "model") = PyStr(<<"U", "l", "t",
                                                            "r", "a", " ",
                                                            "9">>)
             /\ ~HwAbsent("cpu", "cores")
             /\ Field(hw.results, "cpu", "cores") = PyDict(<<Item("total", PyInt(16))>>))
       /\ (hw.probes.npu = Some(TRUE) =>
             /\ ~HwAbsent("npu", "detected")
             /\ Field(hw.results, "npu", "detected") = PyBool(TRUE))
       /\ (hw.probes.free = Exited(0, FreeGood) =>
             /\ ~HwAbsent("memory", "total_gb")
             /\ Field(hw.results, "memory", "total_gb") = PyFloat(33454554)
             /\ Field(hw.results, "memory", "total_gb").n > 0)

(* C18 witness: privileged, every tool well-formed, every device path there. *)
C18_Witness ==
    /\ HwAnalyzed /\ hw.has_sudo
    /\ hw.probes.dmidecode = Exited(0, DmiGood)
    /\ hw.probes.lscpu = Exited(0, LscpuGood)
    /\ hw.probes.free = Exited(0, FreeGood)
    /\ hw.probes.npu = Some(TRUE) /\ hw.probes.gna = Some(TRUE)
    /\ hw.probes.gpu = Some(TRUE) /\ hw.probes.tpm = Some(TRUE)
    /\ Field(hw.results, "platform", "manufacturer") = PyStr(<<"D", "e",
                                                               "l", "l",
                                                               " ", "I",
                                                               "n", "c",
                                                               ".">>)

(* C17 as claimed: GET /hardware answers 500 with an error field when every  *)
(* probe tool is unavailable.                                                *)
C17_Missing(o) == o = Exited(127, <<>>)

C17_NoToolAvailable ==
    /\ hw.analyses = 1
    /\ C17_Missing(hw.probes.lscpu) /\ C17_Missing(hw.probes.free)
    /\ (hw.has_sudo => C17_Missing(hw.probes.dmidecode))

C17_NoToolsIs500 ==
    (hw.pc = "answered" /\ C17_NoToolAvailable) =>
       hw.resp.status = 500 /\ hw.resp.error # ""

(* C17 as amended: every GET /hardware starts the analyzer as a new process  *)
(* and no request is answered from an earlier result. The answer is 200 with *)
(* the report that process printed, a report of this run's own probes,       *)
(* whenever the process ran to its end, also when every probe tool is        *)
(* unavailable, and then the fields fed by the tools are absent; it is 500   *)
(* with an error field when python3 or the script could not be run, the      *)
(* process exited with a status other than 0, or its output was not JSON.    *)
C17_State ==
    /\ hw.runs <= hw.requests
    /\ hw.pc = "answered" =>
          /\ hw.resp.status \in {200, 500}
          /\ hw.resp.status = 200 <=> hw.analyses = 1
          /\ hw.resp.status = 500 => hw.resp.error # ""
          /\ hw.resp.status = 200 =>
                /\ hw.resp.data = hw.results
                /\ Field(hw.resp.data, "npu", "detected").n
                      = (IF Val(hw.probes.npu) THEN 1 ELSE 0)
                /\ Field(hw.resp.data, "security", "tpm_present").n
                      = (IF Val(hw.probes.tpm) THEN 1 ELSE 0)
          /\ C17_NoToolAvailable =>
                /\ hw.resp.status = 200
                /\ HwAbsent("cpu", "model") /\ HwAbsent("cpu", "cores")
                /\ HwAbsent("memory", "total_gb")
                /\ HwAbsent("platform", "manufacturer")

C17_Step ==
    hw'.requests # hw.requests =>
       /\ hw'.requests = hw.requests + 1
       /\ hw'.resp.status \in {0, 500}
       /\ hw'.results = ResultsInit /\ hw'.probes = NoProbes /\ hw'.stdout = <<>>
       /\ (hw'.resp.status = 0 => hw'.runs = hw.runs + 1 /\ hw'.pc = "construct")

C17_HardwareFresh == []C17_State /\ [][C17_Step]_vars

(* C17 witness: the second request, like the first, ran the analyzer; every  *)
(* probe tool was missing and the answer is 200.                             *)
C17_Witness ==
    /\ hw.pc = "answered" /\ hw.requests = 2 /\ hw.runs = 2
    /\ C17_NoToolAvailable /\ hw.has_sudo
    /\ hw.resp.status = 200
    /\ HwAbsent("cpu", "model")

(* C19: main with --json. The analyzer started with --json runs analyze      *)
(* once and writes exactly one output to standard output, a JSON document    *)
(* that json.loads turns back into the report analyze returned.              *)
C19_MainJson ==
    (hw.mode = "cli" /\ hw.json) =>
       /\ (hw.pc # "exited" => hw.stdout = <<>>)
       /\ (hw.pc = "exited" =>
             /\ hw.analyses = 1
             /\ Len(hw.stdout) = 1
             /\ Loads(hw.stdout[1]).ok
             /\ Loads(hw.stdout[1]).v = hw.results
             /\ Loads(StreamText(hw.stdout)).ok)

(* C19 witness: --json, unprivileged, lscpu and free well-formed: the one    *)
(* document holds a str, an int in a nested dict, a float, bools and a list. *)
C19_Witness ==
    /\ hw.mode = "cli" /\ hw.json /\ hw.pc = "exited"
    /\ ~hw.has_sudo
    /\ hw.probes.lscpu = Exited(0, LscpuGood)
    /\ hw.probes.free = Exited(0, FreeGood)
    /\ Len(hw.stdout) = 1
    /\ Loads(hw.stdout[1]).v = hw.results

(* ------------------------------------------------------------------------ *)
(* C21: the early return of initialize_pipeline. A call that finds the      *)
(* model path unset or no directory returns False at once: it announces no  *)
(* device and constructs no pipeline, and the step leaves os.environ, the   *)
(* pipeline, device_g and the core count read so far as they were, also     *)
(* when an earlier call had set the pipeline. A call that found no device   *)
(* to work returns with the pipeline None.                                  *)
C21_EarlyReturn(t) == th[t].pc = "ip_begin" /\ ~PathOk /\ th'[t] # th[t]

C21_State ==
    (last.op = "init" /\ last.why = "path") =>
        /\ last.result = "False"
        /\ last.devices = <<>> /\ last.tried = <<>> /\ last.failed = <<>>
        /\ last.inst = None /\ last.fatal = None

C21_Step ==
    /\ \A t \in Threads :
          C21_EarlyReturn(t) =>
              /\ last'.op = "init" /\ last'.why = "path"
              /\ th'[t] = IdleTh
              /\ UNCHANGED <<environ, pipeline, device_g, model_path_g,
                             cpu_count, made, cached>>
    /\ (last'.op = "init" /\ last'.why = "path" /\ last' # last) =>
          \E t \in Threads : C21_EarlyReturn(t)
    /\ (last'.op = "init" /\ last'.why = "exhausted" /\ last' # last) =>
          pipeline' = None

C21_PathFailureFrame == []C21_State /\ [][C21_Step]_vars

(* C21 witness: a first call set the pipeline and the environment, the host *)
(* then assigned a path that is no directory, and the next call has just    *)
(* returned False with the pipeline still set.                              *)
C21_Witness ==
    /\ last.op = "init" /\ last.why = "path" /\ last.result = "False"
    /\ model_path_g # None /\ ~IsDir(Val(model_path_g))
    /\ pipeline # None
    /\ environ.OPENVINO_HETERO_PRIORITY # None
    /\ made = 1

====
